---- MODULE Spec2Model ----
(***************************************************************************)
(* A model of the Facebook photo page scraper bookmarklet                  *)
(* (src/unnamed/part_000) and of the comment viewer (src/script.js).       *)
(*                                                                         *)
(* Text is modelled as a sequence of atoms.  An atom is a short run of     *)
(* characters that the regular expressions of the source never split: a    *)
(* single digit, a comma, a blank, or a whole word such as "Comments" or   *)
(* " and ".  The string "5 Comments" is <<"5", " ", "Comments">>.          *)
(***************************************************************************)
EXTENDS Integers, Sequences, FiniteSets, TLC

VARIABLES
    page,        \* the rendered document and the browser's copy behaviour
    pc,          \* position of the running script
    metaRet,     \* { postAuthor, postLocation } of scrapePostAuthorAndMeta
    dateRet,     \* postDate of scrapePostDate
    engRet,      \* { likes, totalComments } of scrapeEngagement
    comRet,      \* { comments, avatars } of scrapeCommentsAndAvatars
    photoRet,    \* mainPhotoUrl of scrapeMainPhoto
    scrapedData, \* the records assembled in this execution, in order
    alerts,      \* alert() notifications shown to the operator, in order
    console,     \* console.error entries, in order
    clipboard,   \* texts the copy command placed on the clipboard, in order
    calls,       \* per call of runScraper, the functions it invoked, in order
    bodyTextareas, \* values of the textareas attached to document.body
    copyLog,     \* outcome of each document.execCommand('copy'), in order
    \* The viewer page (src/script.js).
    localStorage,  \* the item 'fb_photo_comment_json' of the prior session
    dataJson,      \* what fetch('data.json') is going to yield
    vpc,           \* position of the viewer: loading, fetching or settled
    postData,      \* let postData
    flatCommentList,           \* let flatCommentList
    currentCommentIndex,       \* let currentCommentIndex
    commentsContainer,         \* children of #comments-container, in order
    overlayCommentsContainer,  \* children of #overlay-comments-container
    commentCounter,            \* textContent of #comment-counter
    domWrites,     \* elements populatePostDetails has written, in order
    listeners,     \* number of times setupEventListeners has run
    callbackLog,   \* invocations of loadData's callback, in order
    fetches,       \* number of fetch('data.json') requests issued
    event,         \* the input event handled last
    scrolledTo     \* position of the sidebar comment last passed to
                   \* scrollIntoView (0: none)

scraperVars == <<page, pc, metaRet, dateRet, engRet, comRet, photoRet,
                 scrapedData, alerts, console, clipboard, calls,
                 bodyTextareas, copyLog>>

viewerVars == <<localStorage, dataJson, vpc, postData, flatCommentList,
                currentCommentIndex, commentsContainer,
                overlayCommentsContainer, commentCounter, domWrites,
                listeners, callbackLog, fetches, event, scrolledTo>>

vars == <<scraperVars, viewerVars>>

-----------------------------------------------------------------------------
(* JavaScript values that are not strings of the page.                     *)

\* An element handle is a sequence: empty for null / undefined, else holding
\* the element.
Absent     == <<>>
Present(e) == <<e>>
The(h)     == h[1]

Undefined == "<undefined>"   \* the value undefined
Null      == "<null>"        \* the value null

\* JavaScript truthiness of a string-or-missing value.
Truthy(v) == v \notin {Undefined, Null, ""}

-----------------------------------------------------------------------------
(* Text helpers.                                                           *)

Digits == {"0", "1", "2", "3", "4", "5", "6", "7", "8", "9"}

DigitVal(a) ==
    CASE a = "0" -> 0 [] a = "1" -> 1 [] a = "2" -> 2 [] a = "3" -> 3
      [] a = "4" -> 4 [] a = "5" -> 5 [] a = "6" -> 6 [] a = "7" -> 7
      [] a = "8" -> 8 [] a = "9" -> 9

Blanks == {" ", ""}

RECURSIVE TrimLeft(_)
TrimLeft(t) ==
    IF t # <<>> /\ Head(t) \in Blanks THEN TrimLeft(Tail(t)) ELSE t

RECURSIVE TrimRight(_)
TrimRight(t) ==
    IF t # <<>> /\ t[Len(t)] \in Blanks
    THEN TrimRight(SubSeq(t, 1, Len(t) - 1))
    ELSE t

\* String.prototype.trim on a text of atoms.
Trim(t) == TrimRight(TrimLeft(t))

\* The NaN result of parseInt, kept apart from every count.
NaN == -1

\* parseInt(s, 10) of a text: the value of its leading digits, NaN if none.
RECURSIVE ParseDigits(_, _)
ParseDigits(t, acc) ==
    IF t # <<>> /\ Head(t) \in Digits
    THEN ParseDigits(Tail(t), acc * 10 + DigitVal(Head(t)))
    ELSE acc

parseInt(t) ==
    IF t # <<>> /\ Head(t) \in Digits THEN ParseDigits(t, 0) ELSE NaN

\* text.match(/\d+/g): the maximal runs of digits, left to right
\* (the empty sequence stands for the null of "no match").
RECURSIVE DigitRuns(_, _, _)
DigitRuns(t, run, acc) ==
    IF t = <<>>
    THEN IF run = <<>> THEN acc ELSE Append(acc, run)
    ELSE IF Head(t) \in Digits
         THEN DigitRuns(Tail(t), Append(run, Head(t)), acc)
         ELSE DigitRuns(Tail(t), <<>>,
                        IF run = <<>> THEN acc ELSE Append(acc, run))

MatchNumbers(t) == DigitRuns(t, <<>>, <<>>)

-----------------------------------------------------------------------------
(* scrapeCommentsAndAvatars: raw records, avatars, the reply tree.         *)
(*                                                                         *)
(* A comments container is Absent or the sequence of its article elements  *)
(* in document order.  An article is                                       *)
(*   [author : the name the aria-label pattern captures, or Null,          *)
(*    msg    : NoMessageEl, or the trimmed innerText of div[dir=auto],     *)
(*    avatar : the xlink:href of the article's image, Undefined or Null,   *)
(*    depth  : the number of parent steps up to the comments container].   *)
(* The comment objects of one call are numbered 1..n in the order of       *)
(* rawComments; a number stands for the object reference.                  *)

NoMessageEl == "<no div[dir=auto]>"
NoImage     == "<no image>"

FallbackKey == "fallback"
FallbackUrl == "https://placehold.co/32x32/FFFFFF/000000?text=A"

\* Property names every object literal inherits from Object.prototype.
ObjectPrototypeKeys ==
    {"constructor", "toString", "valueOf", "hasOwnProperty", "__proto__"}

\* avatars[name] read on the object literal {} with own properties `avatars`.
AvatarsGet(avatars, name) ==
    IF name \in DOMAIN avatars THEN avatars[name]
    ELSE IF name \in ObjectPrototypeKeys THEN "<inherited>"
    ELSE Undefined

\* avatars[name] = url
AvatarsSet(avatars, name, url) ==
    [k \in DOMAIN avatars \cup {name} |->
        IF k = name THEN url ELSE avatars[k]]

EmptyAvatars == [k \in {} |-> ""]

\* Lines 270-274: the post author's avatar, when the header image exists.
SeedAuthorAvatar(authorAvatar, postAuthorName) ==
    IF authorAvatar # NoImage /\ postAuthorName # "AUTHOR_NOT_FOUND"
    THEN AvatarsSet(EmptyAvatars, postAuthorName, authorAvatar)
    ELSE EmptyAvatars

\* Line 292: message = (authorName && messageEl) ? innerText.trim() : null
MessageOf(article) ==
    IF Truthy(article.author) /\ article.msg # NoMessageEl
    THEN article.msg
    ELSE Null

\* Lines 297-301: a later comment never replaces a recorded avatar.
RecordAvatarFirstSeenMutant(avatars, name, avatarImage) ==
    IF Truthy(avatarImage)
    THEN AvatarsSet(avatars, name, avatarImage)
    ELSE avatars

RecordAvatar(avatars, name, avatarImage) ==
    IF Truthy(avatarImage) /\ ~Truthy(AvatarsGet(avatars, name))
    THEN AvatarsSet(avatars, name, avatarImage)
    ELSE avatars

\* Lines 276-308: the map over the articles, with its side effect on avatars.
\* Returns [raw |-> the non-null records, avatars |-> the map so far].
RECURSIVE MapArticles(_, _, _)
MapArticles(articles, raw, avatars) ==
    IF articles = <<>>
    THEN [raw |-> raw, avatars |-> avatars]
    ELSE LET a == Head(articles)
             message == MessageOf(a)
         IN  IF Truthy(message)
             THEN MapArticles(Tail(articles),
                      Append(raw, [commentObject |->
                                       [name |-> a.author, message |-> message],
                                   depth |-> a.depth]),
                      RecordAvatar(avatars, a.author, a.avatar))
             ELSE MapArticles(Tail(articles), raw, avatars)

\* The heap of comment objects: node[i] holds name and message, has[i] says
\* whether object i carries a replies property, replies[i] is that array
\* (object numbers), top is nestedComments.
EmptyTree == [top |-> <<>>, node |-> <<>>, has |-> <<>>, replies |-> <<>>]

NewHeap(raw) ==
    [top     |-> <<>>,
     node    |-> [i \in 1..Len(raw) |-> raw[i].commentObject],
     has     |-> [i \in 1..Len(raw) |-> FALSE],
     replies |-> [i \in 1..Len(raw) |-> <<>>]]

\* Lines 323-326: pop while the top of the stack is at the same depth or deeper.
RECURSIVE PopStackStrictMutant(_, _, _)
PopStackStrictMutant(stack, raw, depth) ==
    IF Len(stack) > 0 /\ depth < raw[stack[Len(stack)]].depth
    THEN PopStackStrictMutant(SubSeq(stack, 1, Len(stack) - 1), raw, depth)
    ELSE stack

RECURSIVE PopStack(_, _, _)
PopStack(stack, raw, depth) ==
    IF Len(stack) > 0 /\ depth <= raw[stack[Len(stack)]].depth
    THEN PopStack(SubSeq(stack, 1, Len(stack) - 1), raw, depth)
    ELSE stack

\* Lines 328-338: attach object i under the stack's top, or at the top level.
Attach(tree, stack, i) ==
    IF Len(stack) > 0
    THEN LET p == stack[Len(stack)]
         IN  [tree EXCEPT !.has[p] = TRUE,
                          !.replies[p] = Append(@, i)]
    ELSE [tree EXCEPT !.top = Append(@, i)]

\* Lines 320-340: the forEach over rawComments, from record i on.
RECURSIVE BuildFrom(_, _, _, _)
BuildFrom(raw, i, tree, stack) ==
    IF i > Len(raw)
    THEN tree
    ELSE LET popped == PopStack(stack, raw, raw[i].depth)
         IN  BuildFrom(raw, i + 1, Attach(tree, popped, i), Append(popped, i))

\* Lines 343-351: delete the replies property of every visited object whose
\* replies are missing or empty; recurse into the others.
RECURSIVE removeEmptyRepliesKeepMutant(_, _)
removeEmptyRepliesKeepMutant(tree, comments) ==
    IF comments = <<>>
    THEN tree
    ELSE LET c == Head(comments)
             t == IF tree.has[c] /\ Len(tree.replies[c]) > 0
                  THEN removeEmptyRepliesKeepMutant(tree, tree.replies[c])
                  ELSE [tree EXCEPT !.has[c] = TRUE, !.replies[c] = <<>>]
         IN  removeEmptyRepliesKeepMutant(t, Tail(comments))

RECURSIVE removeEmptyReplies(_, _)
removeEmptyReplies(tree, comments) ==
    IF comments = <<>>
    THEN tree
    ELSE LET c == Head(comments)
             t == IF tree.has[c] /\ Len(tree.replies[c]) > 0
                  THEN removeEmptyReplies(tree, tree.replies[c])
                  ELSE [tree EXCEPT !.has[c] = FALSE, !.replies[c] = <<>>]
         IN  removeEmptyReplies(t, Tail(comments))

\* Lines 316-352: the nested structure built from the raw records.
BuildTree(raw) ==
    LET built == BuildFrom(raw, 1, NewHeap(raw), <<>>)
    IN  removeEmptyReplies(built, built.top)

\* Lines 261-356.
scrapeCommentsAndAvatars(commentsDiv, authorAvatar, postAuthorName) ==
    IF commentsDiv = Absent
    THEN [comments |-> EmptyTree, avatars |-> EmptyAvatars]
    ELSE LET m == MapArticles(The(commentsDiv), <<>>,
                      SeedAuthorAvatar(authorAvatar, postAuthorName))
         IN  IF Len(m.raw) = 0
             THEN [comments |-> EmptyTree,
                   avatars  |-> AvatarsSet(m.avatars, FallbackKey, FallbackUrl)]
             ELSE [comments |-> BuildTree(m.raw),
                   avatars  |-> AvatarsSet(m.avatars, FallbackKey, FallbackUrl)]

-----------------------------------------------------------------------------
(* script.js: flattenComments.                                             *)

\* Lines 52-61: pre-order, each copy tagged with its nesting level.
RECURSIVE flattenCommentsFlatMutant(_, _, _)
flattenCommentsFlatMutant(tree, comments, level) ==
    IF comments = <<>>
    THEN <<>>
    ELSE LET c == Head(comments)
             own == <<[name |-> tree.node[c].name,
                       message |-> tree.node[c].message,
                       level |-> level]>>
             kids == IF tree.has[c] /\ Len(tree.replies[c]) > 0
                     THEN flattenCommentsFlatMutant(tree, tree.replies[c], level)
                     ELSE <<>>
         IN  own \o kids \o flattenCommentsFlatMutant(tree, Tail(comments), level)

RECURSIVE flattenComments(_, _, _)
flattenComments(tree, comments, level) ==
    IF comments = <<>>
    THEN <<>>
    ELSE LET c == Head(comments)
             own == <<[name |-> tree.node[c].name,
                       message |-> tree.node[c].message,
                       level |-> level]>>
             kids == IF tree.has[c] /\ Len(tree.replies[c]) > 0
                     THEN flattenComments(tree, tree.replies[c], level + 1)
                     ELSE <<>>
         IN  own \o kids \o flattenComments(tree, Tail(comments), level)

-----------------------------------------------------------------------------
(* scrapePostDate.                                                         *)
(*                                                                         *)
(* A date anchor is Absent or [lead : Text, spans : sequence of spans in   *)
(* document order]; a span is [text : Text, x, y] with the left and top of *)
(* its bounding rectangle.  The anchor's textContent is its leading text   *)
(* followed by the text of its spans.                                      *)

\* Number of characters of an atom.
CharLen(a) ==
    CASE a = ""    -> 0
      [] a = "hrs" -> 3
      [] a = "March" -> 5
      [] OTHER -> 1

RECURSIVE TextLength(_)
TextLength(t) == IF t = <<>> THEN 0 ELSE CharLen(Head(t)) + TextLength(Tail(t))

RECURSIVE ConcatTexts(_)
ConcatTexts(ts) == IF ts = <<>> THEN <<>> ELSE Head(ts) \o ConcatTexts(Tail(ts))

AnchorTextContent(anchor) ==
    anchor.lead \o ConcatTexts([i \in 1..Len(anchor.spans) |-> anchor.spans[i].text])

\* SelectSeq with the test written out (the test is not a named operator).
RECURSIVE SingleCharSpans(_)
SingleCharSpans(spans) ==
    IF spans = <<>> THEN <<>>
    ELSE IF TextLength(Trim(Head(spans).text)) = 1
         THEN <<Head(spans)>> \o SingleCharSpans(Tail(spans))
         ELSE SingleCharSpans(Tail(spans))

Abs(n) == IF n < 0 THEN -n ELSE n

SortTolerance == 5
LineTolerance == 5

\* Lines 151-157: the comparator; negative when a sorts before b.
Compare(a, b) ==
    IF Abs(a.y - b.y) > SortTolerance THEN a.y - b.y ELSE a.x - b.x

\* Array.prototype.sort is stable; with a consistent comparator its result
\* is the one a stable insertion sort gives.
RECURSIVE InsertSorted(_, _)
InsertSorted(sorted, e) ==
    IF sorted = <<>> THEN <<e>>
    ELSE IF Compare(sorted[Len(sorted)], e) <= 0
         THEN Append(sorted, e)
         ELSE Append(InsertSorted(SubSeq(sorted, 1, Len(sorted) - 1), e),
                     sorted[Len(sorted)])

RECURSIVE SortSpans(_, _)
SortSpans(spans, acc) ==
    IF spans = <<>> THEN acc
    ELSE SortSpans(Tail(spans), InsertSorted(acc, Head(spans)))

\* Lines 148-157.
SortedSpans(anchor) == SortSpans(SingleCharSpans(anchor.spans), <<>>)

\* Line 162: the positions in sortedSpans kept by the first-line filter.
RECURSIVE FirstLineFrom(_, _)
FirstLineFrom(sorted, i) ==
    IF i > Len(sorted) THEN <<>>
    ELSE IF Abs(sorted[i].y - sorted[1].y) < LineTolerance
         THEN <<i>> \o FirstLineFrom(sorted, i + 1)
         ELSE FirstLineFrom(sorted, i + 1)

FirstLine(sorted) == FirstLineFrom(sorted, 1)

\* /\d/.test(text)
HasDigit(t) == \E i \in 1..Len(t) : t[i] \in Digits

\* A piece of the reconstructed date: the text of the fragment at position
\* src of sortedSpans, or (src = 0) a separating space the reduce inserted.
Separator == [text |-> <<" ">>, src |-> 0]

\* Lines 163-172: one step of the reduce, at position k of the filtered array.
ReduceStepAlwaysSpaceMutant(acc, sorted, line, k) ==
    LET cur == [text |-> sorted[line[k]].text, src |-> line[k]]
    IN  IF k = 1 THEN <<cur>>
        ELSE acc \o <<Separator, cur>>

\* The reduce step joining every fragment directly to the one before it.
ReduceStepNeverSpaceMutant(acc, sorted, line, k) ==
    LET cur == [text |-> sorted[line[k]].text, src |-> line[k]]
    IN  IF k = 1 THEN <<cur>>
        ELSE Append(acc, cur)

ReduceStep(acc, sorted, line, k) ==
    LET cur == [text |-> sorted[line[k]].text, src |-> line[k]]
    IN  IF k = 1 THEN <<cur>>
        ELSE IF HasDigit(sorted[line[k - 1]].text) # HasDigit(cur.text)
             THEN acc \o <<Separator, cur>>
             ELSE Append(acc, cur)

RECURSIVE ReduceFrom(_, _, _, _)
ReduceFrom(acc, sorted, line, k) ==
    IF k > Len(line) THEN acc
    ELSE ReduceFrom(ReduceStep(acc, sorted, line, k), sorted, line, k + 1)

\* Lines 159-173: the pieces of dateParts, in order.
DatePieces(anchor) ==
    LET sorted == SortedSpans(anchor)
    IN  ReduceFrom(<<>>, sorted, FirstLine(sorted), 1)

PiecesText(pieces) == ConcatTexts([i \in 1..Len(pieces) |-> pieces[i].text])

DATE_NOT_FOUND == <<"DATE_NOT_FOUND">>

\* scrapePostDate without its not-found value for an absent anchor.
scrapePostDateEmptyMutant(datePermalink) ==
    IF datePermalink = Absent THEN <<>>
    ELSE IF Len(SingleCharSpans(The(datePermalink).spans)) = 0
         THEN IF TextLength(Trim(AnchorTextContent(The(datePermalink)))) > 0
              THEN Trim(AnchorTextContent(The(datePermalink)))
              ELSE DATE_NOT_FOUND
         ELSE PiecesText(DatePieces(The(datePermalink)))

\* Lines 133-177.
scrapePostDate(datePermalink) ==
    IF datePermalink = Absent THEN DATE_NOT_FOUND
    ELSE IF Len(SingleCharSpans(The(datePermalink).spans)) = 0
         THEN IF TextLength(Trim(AnchorTextContent(The(datePermalink)))) > 0
              THEN Trim(AnchorTextContent(The(datePermalink)))
              ELSE DATE_NOT_FOUND
         ELSE PiecesText(DatePieces(The(datePermalink)))

-----------------------------------------------------------------------------
(* scrapePostAuthorAndMeta.                                                *)
(*                                                                         *)
(* A header is Absent or the sequence of its links in document order; a    *)
(* link is [inH2 : it matches "h2 a", isDate : it is the date permalink    *)
(* element, text : its textContent].                                       *)

\* textContent.trim() of a link text held as one atom.
TrimName(s) ==
    CASE s \in Blanks    -> ""
      [] s = " Alice "   -> "Alice"
      [] OTHER           -> s

\* Array.prototype.find / querySelector: the first of the positions that pass
\* the test, 0 when none does.
FirstIndex(hits) ==
    IF hits = {} THEN 0
    ELSE CHOOSE i \in hits : \A j \in hits : i <= j

AUTHOR_NOT_FOUND   == "AUTHOR_NOT_FOUND"
LOCATION_NOT_FOUND == "LOCATION_NOT_FOUND"

\* Lines 185-204.
scrapePostAuthorAndMeta(headerDiv, datePermalink) ==
    IF headerDiv = Absent
    THEN [postAuthor |-> AUTHOR_NOT_FOUND, postLocation |-> LOCATION_NOT_FOUND]
    ELSE LET links == The(headerDiv)
             IsAuthor(a, i) == a.inH2
             authorLink ==
                 FirstIndex({i \in 1..Len(links) : IsAuthor(links[i], i)})
             IsLocation(a, i) ==
                 /\ i # authorLink
                 /\ ~(a.isDate /\ datePermalink # Absent)
                 /\ TrimName(a.text) # ""
             locationLink ==
                 FirstIndex({i \in 1..Len(links) : IsLocation(links[i], i)})
         IN  [postAuthor |-> IF authorLink # 0
                             THEN TrimName(links[authorLink].text)
                             ELSE AUTHOR_NOT_FOUND,
              postLocation |-> IF locationLink # 0
                               THEN TrimName(links[locationLink].text)
                               ELSE LOCATION_NOT_FOUND]

-----------------------------------------------------------------------------
(* scrapeEngagement.                                                       *)
(*                                                                         *)
(* A stats container is Absent or [before : Text, likers : NoElement or    *)
(* the innerText of the element labelled "See who reacted", after : Text]; *)
(* its innerText is the three texts in order.                              *)

NoElement == <<"<no element>">>

StatsInnerText(statsDiv) ==
    statsDiv.before
        \o (IF statsDiv.likers = NoElement THEN <<>> ELSE statsDiv.likers)
        \o statsDiv.after

\* /comment/i.test(text)
CommentWords == {"comment", "comments", "Comment", "Comments", "COMMENTS"}
HasCommentWord(t) == \E i \in 1..Len(t) : t[i] \in CommentWords

\* Lines 223-233: the counts read off the numbers of the stats text.
CountsNoReinterpretMutant(statsText) ==
    LET numbers == MatchNumbers(statsText)
    IN  IF Len(numbers) > 0
        THEN IF Len(numbers) > 1
             THEN [otherCount |-> parseInt(numbers[1]),
                   totalComments |-> parseInt(numbers[Len(numbers)])]
             ELSE [otherCount |-> parseInt(numbers[1]), totalComments |-> 0]
        ELSE [otherCount |-> 0, totalComments |-> 0]

CountsFromNumbers(statsText) ==
    LET numbers == MatchNumbers(statsText)
    IN  IF Len(numbers) > 0
        THEN IF Len(numbers) > 1
             THEN [otherCount |-> parseInt(numbers[1]),
                   totalComments |-> parseInt(numbers[Len(numbers)])]
             ELSE IF HasCommentWord(statsText)
                  THEN [otherCount |-> 0,
                        totalComments |-> parseInt(numbers[1])]
                  ELSE [otherCount |-> parseInt(numbers[1]),
                        totalComments |-> 0]
        ELSE [otherCount |-> 0, totalComments |-> 0]

\* The pattern /(.+) and ([\d,]+) others?/ on a text.  An atom " and " is
\* the literal " and "; " others" and " other" both begin with " other".
CountAtoms  == Digits \cup {","}
OthersAtoms == {" others", " other"}

\* The end of the maximal run of count atoms that starts at position i.
RECURSIVE CountRunEnd(_, _)
CountRunEnd(t, i) ==
    IF i + 1 <= Len(t) /\ t[i + 1] \in CountAtoms
    THEN CountRunEnd(t, i + 1)
    ELSE i

\* Positions k of " and " after which the count and "other" follow.
AndPositions(t) ==
    {k \in 2..Len(t) :
        /\ t[k] = " and "
        /\ k + 1 <= Len(t)
        /\ t[k + 1] \in CountAtoms
        /\ CountRunEnd(t, k + 1) + 1 <= Len(t)
        /\ t[CountRunEnd(t, k + 1) + 1] \in OthersAtoms}

Max(S) == CHOOSE m \in S : \A n \in S : n <= m

\* match[1] and match[2]; (.+) is greedy, so it ends at the last " and "
\* that still lets the rest of the pattern match.
LikersMatch(t) ==
    IF AndPositions(t) = {}
    THEN [matched |-> FALSE, name |-> <<>>, count |-> <<>>]
    ELSE LET k == Max(AndPositions(t))
         IN  [matched |-> TRUE,
              name    |-> SubSeq(t, 1, k - 1),
              count   |-> SubSeq(t, k + 1, CountRunEnd(t, k + 1))]

\* match[2].replace(/,/g, "")
RECURSIVE StripCommas(_)
StripCommas(t) ==
    IF t = <<>> THEN <<>>
    ELSE IF Head(t) = "," THEN StripCommas(Tail(t))
    ELSE <<Head(t)>> \o StripCommas(Tail(t))

\* /^\d+$/.test(text)
AllDigits(t) == Len(t) > 0 /\ \A i \in 1..Len(t) : t[i] \in Digits

\* Lines 236-249: the "See who reacted" element, applied to the counts so far.
ApplyLikersLabel(likes, likers) ==
    IF likers = NoElement THEN likes
    ELSE LET likersText == Trim(likers)
             match == LikersMatch(likersText)
         IN  IF TextLength(likersText) = 0 THEN likes
             ELSE IF match.matched
                  THEN [firstLiker |-> Trim(match.name),
                        otherCount |-> parseInt(StripCommas(match.count))]
                  ELSE IF ~AllDigits(likersText)
                       THEN [likes EXCEPT !.firstLiker = likersText]
                       ELSE likes

\* Lines 211-252.
scrapeEngagement(statsDiv) ==
    IF statsDiv = Absent
    THEN [likes |-> [firstLiker |-> <<>>, otherCount |-> 0], totalComments |-> 0]
    ELSE LET counts == CountsFromNumbers(StatsInnerText(The(statsDiv)))
         IN  [likes |-> ApplyLikersLabel(
                            [firstLiker |-> <<>>, otherCount |-> counts.otherCount],
                            The(statsDiv).likers),
              totalComments |-> counts.totalComments]

-----------------------------------------------------------------------------
(* scrapeMainPhoto.                                                        *)
(*                                                                         *)
(* mainDivs is the sequence of div[role=main] elements in document order;  *)
(* each is [visible : offsetHeight > 0 or clientHeight > 0,                *)
(*          img : NoImage or the src of its media image].                  *)

PHOTO_URL_NOT_FOUND_NO_MAIN_DIV == "PHOTO_URL_NOT_FOUND_NO_MAIN_DIV"
PHOTO_URL_NOT_FOUND_NO_IMAGE_IN_VISIBLE_MAIN_DIV ==
    "PHOTO_URL_NOT_FOUND_NO_IMAGE_IN_VISIBLE_MAIN_DIV"

\* Lines 94-125.
scrapeMainPhoto(mainDivs) ==
    IF Len(mainDivs) = 0 THEN PHOTO_URL_NOT_FOUND_NO_MAIN_DIV
    ELSE LET HasImage(d, i) == d.visible /\ d.img # NoImage
             found ==
                 FirstIndex({i \in 1..Len(mainDivs) : HasImage(mainDivs[i], i)})
         IN  IF found # 0 /\ Truthy(mainDivs[found].img)
             THEN mainDivs[found].img
             ELSE PHOTO_URL_NOT_FOUND_NO_IMAGE_IN_VISIBLE_MAIN_DIV

-----------------------------------------------------------------------------
(* The document tree and findCoreContainers.                               *)
(*                                                                         *)
(* A document tree is [parent, tag, role, href]: sequences indexed by the  *)
(* element's number; elements are numbered in document order, parent 0 is  *)
(* "no parentElement", href is the text of an A element's href.            *)

Elements(dom) == 1..Len(dom.parent)

RECURSIVE Ancestors(_, _)
Ancestors(dom, n) ==
    IF dom.parent[n] = 0 THEN {}
    ELSE {dom.parent[n]} \cup Ancestors(dom, dom.parent[n])

\* The least element of a set of element numbers: the first in document order.
First(S) == CHOOSE n \in S : \A m \in S : n <= m

\* Array.from(current.children).filter(el => el.tagName === "DIV")
DivChildren(dom, n) ==
    LET kids == {c \in Elements(dom) : dom.parent[c] = n /\ dom.tag[c] = "DIV"}
        RECURSIVE InOrder(_)
        InOrder(S) == IF S = {} THEN <<>>
                      ELSE <<First(S)>> \o InOrder(S \ {First(S)})
    IN  InOrder(kids)

\* a.href.includes("/photo/")
IsPhotoLink(dom, n) ==
    dom.tag[n] = "A" /\ \E i \in 1..Len(dom.href[n]) : dom.href[n][i] = "/photo/"

NotFound == [found |-> FALSE, headerDiv |-> 0, statsDiv |-> 0,
             commentsDiv |-> 0, datePermalink |-> 0, commonAncestor |-> 0]

\* Line 65: the shape test on a shared ancestor.
HasFourDivChildren(dom, n) == Len(DivChildren(dom, n)) = 4

\* The walk taking the first ancestor of the article with four DIV children,
\* whether or not it contains the date permalink.
RECURSIVE WalkUpIgnoresPermalinkMutant(_, _, _)
WalkUpIgnoresPermalinkMutant(dom, current, datePermalinkAncestors) ==
    IF current = 0 THEN 0
    ELSE IF HasFourDivChildren(dom, current)
         THEN current
         ELSE WalkUpIgnoresPermalinkMutant(dom, dom.parent[current],
                                           datePermalinkAncestors)

\* Lines 59-71: walk up from the article's parent.
RECURSIVE WalkUp(_, _, _)
WalkUp(dom, current, datePermalinkAncestors) ==
    IF current = 0 THEN 0
    ELSE IF current \in datePermalinkAncestors /\ HasFourDivChildren(dom, current)
         THEN current
         ELSE WalkUp(dom, dom.parent[current], datePermalinkAncestors)

\* Lines 15-86.  commonAncestor is kept in the result for inspection only.
findCoreContainers(dom) ==
    LET complementary == {n \in Elements(dom) :
                             dom.tag[n] = "DIV" /\ dom.role[n] = "complementary"}
        links == IF complementary = {} THEN {}
                 ELSE {n \in Elements(dom) :
                          /\ First(complementary) \in Ancestors(dom, n)
                          /\ IsPhotoLink(dom, n)}
        articles == {n \in Elements(dom) :
                        dom.tag[n] = "DIV" /\ dom.role[n] = "article"}
    IN  IF complementary = {} THEN NotFound
        ELSE IF links = {} THEN NotFound
        ELSE IF articles = {} THEN NotFound
        ELSE LET datePermalink == First(links)
                 commonAncestor ==
                     WalkUp(dom, dom.parent[First(articles)],
                            Ancestors(dom, datePermalink))
             IN  IF commonAncestor = 0 THEN NotFound
                 ELSE LET divChildren == DivChildren(dom, commonAncestor)
                      IN  [found |-> TRUE,
                           headerDiv |-> divChildren[1],
                           statsDiv |-> divChildren[2],
                           commentsDiv |-> divChildren[4],
                           datePermalink |-> datePermalink,
                           commonAncestor |-> commonAncestor]

-----------------------------------------------------------------------------
(* Assembling and serializing the record.                                  *)

\* Lines 406-415.
AssembleData(photo, meta, date, eng, com) ==
    [mainPhotoUrl  |-> photo,
     postAuthor    |-> meta.postAuthor,
     postDate      |-> date,
     postLocation  |-> meta.postLocation,
     likes         |-> eng.likes,
     totalComments |-> eng.totalComments,
     avatars       |-> com.avatars,
     comments      |-> com.comments]

\* JSON.stringify of a number: NaN is written null.
JsonNumber(n) == IF n = NaN THEN "null" ELSE ToString(n)

\* JSON.stringify of the comment objects: a replies member only where the
\* object has the property.
RECURSIVE JsonComments(_, _)
JsonComments(tree, comments) ==
    IF comments = <<>> THEN <<>>
    ELSE LET c == Head(comments)
             own == IF tree.has[c]
                    THEN [name |-> tree.node[c].name,
                          message |-> tree.node[c].message,
                          replies |-> JsonComments(tree, tree.replies[c])]
                    ELSE [name |-> tree.node[c].name,
                          message |-> tree.node[c].message]
         IN  <<own>> \o JsonComments(tree, Tail(comments))

\* Line 363: JSON.stringify(data, null, 2).
Serialize(data) ==
    [mainPhotoUrl  |-> data.mainPhotoUrl,
     postAuthor    |-> data.postAuthor,
     postDate      |-> data.postDate,
     postLocation  |-> data.postLocation,
     likes         |-> [firstLiker |-> data.likes.firstLiker,
                        otherCount |-> JsonNumber(data.likes.otherCount)],
     totalComments |-> JsonNumber(data.totalComments),
     avatars       |-> data.avatars,
     comments      |-> JsonComments(data.comments, data.comments.top)]

-----------------------------------------------------------------------------
(* finalizeAndCopy and runScraper.                                         *)

\* What document.execCommand('copy') can do: copy and return true, refuse
\* and return false, or raise.
CopyOutcomes == {"copied", "refused", "throws"}

COPIED_ALERT == "Facebook post data copied to clipboard!"
COPY_FAILED_ALERT == "Failed to copy data. See the browser console for details."
ORIENTATION_ALERT ==
    "Scraper could not orient itself on the page. Core containers not found. Check console."
RUN_FAILED_ALERT ==
    "The scraper could not run successfully. Check the console for errors. The page structure may have changed."

\* A console.error entry: its message and the values logged with it that
\* hold page data (none of the calls of the source logs any).
ConsoleError(message) == [level |-> "error", message |-> message, data |-> <<>>]

\* Lines 362-381: the effects of one call, given the textareas attached to
\* the body and what the copy command does.
finalizeAndCopy(data, body, outcome) ==
    LET jsonString == Serialize(data)
        attached == Append(body, jsonString)              \* line 370
    IN  [clipboard |-> IF outcome = "copied" THEN <<jsonString>> ELSE <<>>,
         alerts |-> IF outcome = "throws"
                    THEN <<COPY_FAILED_ALERT>>
                    ELSE <<COPIED_ALERT>>,
         console |-> IF outcome = "throws"
                     THEN <<ConsoleError("Failed to copy data to clipboard:")>>
                     ELSE <<>>,
         body |-> SubSeq(attached, 1, Len(attached) - 1)] \* line 379

\* Lines 25, 35, 45, 74: what findCoreContainers writes with console.error
\* when it gives up.
OrientationError(dom) ==
    LET complementary == {n \in Elements(dom) :
                             dom.tag[n] = "DIV" /\ dom.role[n] = "complementary"}
        links == IF complementary = {} THEN {}
                 ELSE {n \in Elements(dom) :
                          /\ First(complementary) \in Ancestors(dom, n)
                          /\ IsPhotoLink(dom, n)}
        articles == {n \in Elements(dom) :
                        dom.tag[n] = "DIV" /\ dom.role[n] = "article"}
    IN  IF complementary = {}
        THEN ConsoleError("Could not find the element with role='complementary'. Orientation failed.")
        ELSE IF links = {}
        THEN ConsoleError("Could not find the unique date permalink containing '/photo/' within the complementary element. Orientation failed.")
        ELSE IF articles = {}
        THEN ConsoleError("Could not find any comment articles. Orientation failed.")
        ELSE ConsoleError("Could not find a common ancestor with 4 DIV children.")

\* Line 392.
OrientationFailedNeverMutant(coreContainers) == FALSE

OrientationFailed(coreContainers) == ~coreContainers.found

-----------------------------------------------------------------------------
(* Bounds and input sets.                                                  *)

MaxComments       == 4   \* articles of a comments container (tree inputs)
MaxDepth          == 2   \* largest depth of a raw comment record
MaxAvatarComments == 3   \* articles of a comments container (avatar inputs)
MaxStatsLen       == 2   \* atoms of the text before / after the likers element
MaxSpans          == 3   \* span elements of a date anchor

\* Names of the comments of a tree input, by position.
TreeNames == <<"A", "B", "C", "D", "E", "F", "G", "H">>

\* The tree input with messages and depths f[i] = <<msg, depth>>.
TreeInput(f) ==
    [i \in DOMAIN f |-> [author |-> TreeNames[i], msg |-> f[i][1],
                         avatar |-> Undefined, depth |-> f[i][2]]]

TreeChoices == {"m", NoMessageEl} \X (0..MaxDepth)

AvatarNames == {"Ann", "fallback", "constructor"}

AvatarArticles ==
    [author : AvatarNames \cup {Null}, msg : {"m"},
     avatar : {Undefined, "u1", "u2"}, depth : {1}]

StatsAtoms == {"2", "4", "5", " ", "Comments"}

LikersTexts ==
    {NoElement,
     <<>>,
     <<"Jane">>,
     <<"7">>,
     <<"Jane", " and ", "1", "2", " others">>,
     <<" ", "Jane", " and ", "1", ",", "2", "0", " other">>,
     <<"Jane", " and ", "Bob", " and ", "3", " others">>,
     <<"Jane", " and ", ",", " others">>,
     <<"Jane", " and ", "3">>}


SpanTexts == {<<"8">>, <<"h">>, <<"hrs">>}
Xs == {10, 20}
Ys == {0, 5, 20}

DateLeads == {<<>>, <<" ", "March", " ", "5">>}
Spans == [text : SpanTexts, x : Xs, y : Ys]

\* Sample contents of the located elements.
SampleHeader ==
    <<[inH2 |-> TRUE,  isDate |-> FALSE, text |-> " Alice "],
      [inH2 |-> FALSE, isDate |-> TRUE,  text |-> "8h"],
      [inH2 |-> FALSE, isDate |-> FALSE, text |-> " "],
      [inH2 |-> FALSE, isDate |-> FALSE, text |-> "Paris"]>>

SampleStats ==
    [before |-> <<>>,
     likers |-> <<"Jane", " and ", "1", "2", " others">>,
     after  |-> <<" ", "5", " ", "Comments">>]

SampleComments ==
    <<[author |-> "A", msg |-> "m", avatar |-> "u1", depth |-> 1],
      [author |-> "B", msg |-> "m", avatar |-> Undefined, depth |-> 2],
      [author |-> Null, msg |-> "m", avatar |-> "u2", depth |-> 2],
      [author |-> "A", msg |-> "m", avatar |-> "u2", depth |-> 1]>>

SampleDate ==
    [lead |-> <<>>,
     spans |-> <<[text |-> <<"8">>, x |-> 10, y |-> 0],
                 [text |-> <<"h">>, x |-> 20, y |-> 0]>>]

SampleMainDivs ==
    <<[visible |-> FALSE, img |-> "hidden.jpg"],
      [visible |-> TRUE,  img |-> "photo.jpg"]>>

\* A document tree of thirteen elements:
\*   1 root > 2 outer > { 3 header > 4 link, 5 stats, 6 middle,
\*                        7 comments > 8 wrapper > 9 inner },
\*   10, 11, 12 further children of the root, 13 a link under the root.
\* The options choose which element is marked complementary, which links
\* point to a photo, which of 8 and 9 are marked as articles, and whether
\* the middle element and the root's further children are DIVs.
PhotoHref == <<"https://www.facebook.com", "/photo/", "?fbid=1">>
OtherHref == <<"https://www.facebook.com", "/profile">>
NoHref    == <<>>

MakeDom(o) ==
    [parent |-> <<0, 1, 2, 3, 2, 2, 2, 7, 8, 1, 1, 1, 1>>,
     tag    |-> <<"DIV", "DIV", "DIV", "A", "DIV", o.middle, "DIV", "DIV", "DIV",
                  o.siblings, o.siblings, o.siblings, "A">>,
     role   |-> [n \in 1..13 |->
                    IF n = o.complementary THEN "complementary"
                    ELSE IF n \in o.articles THEN "article"
                    ELSE ""],
     href   |-> [n \in 1..13 |->
                    IF n = 4 THEN o.href4
                    ELSE IF n = 13 THEN o.href13
                    ELSE NoHref]]

DomOptions ==
    [complementary : {0, 1, 2, 3},
     href4         : {PhotoHref, OtherHref},
     href13        : {PhotoHref, OtherHref},
     articles      : SUBSET {8, 9},
     middle        : {"DIV", "SPAN"},
     siblings      : {"DIV", "SPAN"}]

Doms == {MakeDom(o) : o \in DomOptions}

CanonicalDom ==
    MakeDom([complementary |-> 1, href4 |-> PhotoHref, href13 |-> OtherHref,
             articles |-> {9}, middle |-> "DIV", siblings |-> "SPAN"])

\* The contents of the elements the locator hands to the extractors are
\* drawn independently of the tree's shape.
RichPage ==
    [dom |-> CanonicalDom, headerDiv |-> Present(SampleHeader),
     statsDiv |-> Present(SampleStats), commentsDiv |-> Present(SampleComments),
     datePermalink |-> Present(SampleDate),
     mainDivs |-> SampleMainDivs, authorAvatar |-> "u0"]

SparsePage ==
    [dom |-> CanonicalDom, headerDiv |-> Present(<<>>),
     statsDiv |-> Present([before |-> <<>>, likers |-> NoElement, after |-> <<>>]),
     commentsDiv |-> Present(<<>>),
     datePermalink |-> Present([lead |-> <<" ">>, spans |-> <<>>]),
     mainDivs |-> <<>>, authorAvatar |-> NoImage]

-----------------------------------------------------------------------------
(* Initial states.                                                         *)

NoReturns ==
    /\ metaRet = [postAuthor |-> "", postLocation |-> ""]
    /\ dateRet = <<>>
    /\ engRet = [likes |-> [firstLiker |-> <<>>, otherCount |-> 0],
                 totalComments |-> 0]
    /\ comRet = [comments |-> EmptyTree, avatars |-> EmptyAvatars]
    /\ photoRet = ""
    /\ scrapedData = <<>>

NoEffects ==
    /\ alerts = <<>>
    /\ console = <<>>
    /\ clipboard = <<>>
    /\ calls = <<>>
    /\ bodyTextareas = <<>>
    /\ copyLog = <<>>

\* The viewer page is not open: script.js lines 7-9 and the elements of lines
\* 19-22 as the page is delivered.
ViewerClosed ==
    /\ localStorage = <<>>
    /\ dataJson = <<>>
    /\ vpc = "closed"
    /\ postData = <<>>
    /\ flatCommentList = <<>>
    /\ currentCommentIndex = 0
    /\ commentsContainer = <<>>
    /\ overlayCommentsContainer = <<>>
    /\ commentCounter = <<>>
    /\ domWrites = <<>>
    /\ listeners = 0
    /\ callbackLog = <<>>
    /\ fetches = 0
    /\ event = "none"
    /\ scrolledTo = 0

\* The bookmarklet about to run on a page.
Init ==
    /\ page \in {[p EXCEPT !.dom = d] : p \in {RichPage, SparsePage}, d \in Doms}
    /\ pc = "run1"
    /\ NoReturns
    /\ NoEffects
    /\ ViewerClosed

\* scrapeCommentsAndAvatars about to be called on a tree input.
InitTree ==
    /\ \E k \in 0..MaxComments : \E f \in [1..k -> TreeChoices] :
           page = [SparsePage EXCEPT !.commentsDiv = Present(TreeInput(f))]
    /\ pc = "call"
    /\ NoReturns
    /\ NoEffects
    /\ ViewerClosed

\* scrapeCommentsAndAvatars about to be called on an avatar input, after
\* scrapePostAuthorAndMeta returned.
InitAvatars ==
    /\ \E a \in {NoImage, Null, "u0"} :
           \/ page = [SparsePage EXCEPT !.commentsDiv = Absent, !.authorAvatar = a]
           \/ \E k \in 0..MaxAvatarComments : \E c \in [1..k -> AvatarArticles] :
                  page = [SparsePage EXCEPT !.commentsDiv = Present(c),
                                            !.authorAvatar = a]
    /\ pc = "call"
    /\ metaRet \in [postAuthor : {"Ann", AUTHOR_NOT_FOUND},
                    postLocation : {LOCATION_NOT_FOUND}]
    /\ dateRet = <<>>
    /\ engRet = [likes |-> [firstLiker |-> <<>>, otherCount |-> 0],
                 totalComments |-> 0]
    /\ comRet = [comments |-> EmptyTree, avatars |-> EmptyAvatars]
    /\ photoRet = ""
    /\ scrapedData = <<>>
    /\ NoEffects
    /\ ViewerClosed

\* scrapeEngagement about to be called.
InitEngagement ==
    /\ \E j, k \in 0..MaxStatsLen :
           \E b \in [1..j -> StatsAtoms], a \in [1..k -> StatsAtoms], l \in LikersTexts :
               page = [SparsePage EXCEPT
                          !.statsDiv = Present([before |-> b, likers |-> l,
                                                after |-> a])]
    /\ pc = "call"
    /\ NoReturns
    /\ NoEffects
    /\ ViewerClosed

\* scrapePostDate about to be called.
InitDate ==
    /\ \E k \in 0..MaxSpans : \E sp \in [1..k -> Spans], l \in DateLeads :
           page = [SparsePage EXCEPT
                      !.datePermalink = Present([lead |-> l, spans |-> sp])]
    /\ pc = "call"
    /\ NoReturns
    /\ NoEffects
    /\ ViewerClosed

\* The extractors about to be called in runScraper's order, each on an
\* element that may be absent.
InitExtract ==
    /\ page \in {[dom |-> CanonicalDom, headerDiv |-> h, statsDiv |-> s,
                  commentsDiv |-> c, datePermalink |-> d, mainDivs |-> m,
                  authorAvatar |-> a] :
                    h \in {Absent, Present(SampleHeader), Present(<<>>)},
                    s \in {Absent, Present(SampleStats)},
                    c \in {Absent, Present(SampleComments), Present(<<>>)},
                    d \in {Absent, Present(SampleDate)},
                    m \in {<<>>, SampleMainDivs},
                    a \in {NoImage, "u0"}}
    /\ pc = "meta"
    /\ NoReturns
    /\ NoEffects
    /\ ViewerClosed

-----------------------------------------------------------------------------
(* Actions.                                                                *)

Effects == <<alerts, console, clipboard, calls, bodyTextareas, copyLog>>

\* Line 399.
CallScrapePostAuthorAndMeta(from, to) ==
    /\ pc = from
    /\ metaRet' = scrapePostAuthorAndMeta(page.headerDiv, page.datePermalink)
    /\ pc' = to
    /\ UNCHANGED <<page, dateRet, engRet, comRet, photoRet, scrapedData, Effects,
                   viewerVars>>

\* Line 400.
CallScrapePostDate(from, to) ==
    /\ pc = from
    /\ dateRet' = scrapePostDate(page.datePermalink)
    /\ pc' = to
    /\ UNCHANGED <<page, metaRet, engRet, comRet, photoRet, scrapedData, Effects,
                   viewerVars>>

\* Line 401.
CallScrapeEngagement(from, to) ==
    /\ pc = from
    /\ engRet' = scrapeEngagement(page.statsDiv)
    /\ pc' = to
    /\ UNCHANGED <<page, metaRet, dateRet, comRet, photoRet, scrapedData, Effects,
                   viewerVars>>

\* Line 402.
CallScrapeCommentsAndAvatars(from, to) ==
    /\ pc = from
    /\ comRet' = scrapeCommentsAndAvatars(page.commentsDiv, page.authorAvatar,
                                          metaRet.postAuthor)
    /\ pc' = to
    /\ UNCHANGED <<page, metaRet, dateRet, engRet, photoRet, scrapedData, Effects,
                   viewerVars>>

\* Line 403.
CallScrapeMainPhoto(from, to) ==
    /\ pc = from
    /\ photoRet' = scrapeMainPhoto(page.mainDivs)
    /\ pc' = to
    /\ UNCHANGED <<page, metaRet, dateRet, engRet, comRet, scrapedData, Effects,
                   viewerVars>>

\* Lines 406-415.
Assemble(from, to) ==
    /\ pc = from
    /\ scrapedData' = Append(scrapedData,
           AssembleData(photoRet, metaRet, dateRet, engRet, comRet))
    /\ pc' = to
    /\ UNCHANGED <<page, metaRet, dateRet, engRet, comRet, photoRet, Effects,
                   viewerVars>>

\* Lines 387-423: one call of runScraper, run to completion.
RunScraper ==
    /\ pc \in {"run1", "run2"}
    /\ pc' = IF pc = "run1" THEN "run2" ELSE "done"
    /\ UNCHANGED <<page, viewerVars>>
    /\ LET coreContainers == findCoreContainers(page.dom)
       IN  IF OrientationFailed(coreContainers)
           THEN \* lines 392-395
                /\ alerts' = Append(alerts, ORIENTATION_ALERT)
                /\ console' = Append(console, OrientationError(page.dom))
                /\ calls' = Append(calls, <<"findCoreContainers">>)
                /\ UNCHANGED <<metaRet, dateRet, engRet, comRet, photoRet,
                               scrapedData, clipboard, bodyTextareas, copyLog>>
           ELSE IF ~coreContainers.found
           THEN \* line 397 on null raises; lines 419-422
                /\ alerts' = Append(alerts, RUN_FAILED_ALERT)
                /\ console' = console \o
                       <<OrientationError(page.dom),
                         ConsoleError("The Facebook scraper bookmarklet failed to run:")>>
                /\ calls' = Append(calls, <<"findCoreContainers">>)
                /\ UNCHANGED <<metaRet, dateRet, engRet, comRet, photoRet,
                               scrapedData, clipboard, bodyTextareas, copyLog>>
           ELSE \E outcome \in CopyOutcomes :
                LET meta == scrapePostAuthorAndMeta(page.headerDiv, page.datePermalink)
                    date == scrapePostDate(page.datePermalink)
                    eng  == scrapeEngagement(page.statsDiv)
                    com  == scrapeCommentsAndAvatars(page.commentsDiv,
                                page.authorAvatar, meta.postAuthor)
                    photo == scrapeMainPhoto(page.mainDivs)
                    data == AssembleData(photo, meta, date, eng, com)
                    fin  == finalizeAndCopy(data, bodyTextareas, outcome)
                IN  /\ metaRet' = meta
                    /\ dateRet' = date
                    /\ engRet' = eng
                    /\ comRet' = com
                    /\ photoRet' = photo
                    /\ scrapedData' = Append(scrapedData, data)
                    /\ alerts' = alerts \o fin.alerts
                    /\ console' = console \o fin.console
                    /\ clipboard' = clipboard \o fin.clipboard
                    /\ bodyTextareas' = fin.body
                    /\ copyLog' = Append(copyLog, outcome)
                    /\ calls' = Append(calls,
                           <<"findCoreContainers", "scrapePostAuthorAndMeta",
                             "scrapePostDate", "scrapeEngagement",
                             "scrapeCommentsAndAvatars", "scrapeMainPhoto",
                             "finalizeAndCopy">>)

-----------------------------------------------------------------------------
(* Specifications.                                                         *)

\* Lines 425-427: the bookmarklet's top-level calls of runScraper.
Next == RunScraper

Spec == Init /\ [][Next]_vars

NextComments == CallScrapeCommentsAndAvatars("call", "returned")

SpecTree == InitTree /\ [][NextComments]_vars

SpecAvatars == InitAvatars /\ [][NextComments]_vars

NextEngagement == CallScrapeEngagement("call", "returned")

SpecEngagement == InitEngagement /\ [][NextEngagement]_vars

NextDate == CallScrapePostDate("call", "returned")

SpecDate == InitDate /\ [][NextDate]_vars

\* Lines 399-415 on elements that may be absent.
NextExtract ==
    \/ CallScrapePostAuthorAndMeta("meta", "date")
    \/ CallScrapePostDate("date", "engagement")
    \/ CallScrapeEngagement("engagement", "comments")
    \/ CallScrapeCommentsAndAvatars("comments", "photo")
    \/ CallScrapeMainPhoto("photo", "assemble")
    \/ Assemble("assemble", "assembled")

SpecExtract == InitExtract /\ [][NextExtract]_vars

-----------------------------------------------------------------------------
(* The viewer (src/script.js).                                             *)
(*                                                                         *)
(* A record read by the viewer is [origin, comments, avatars, likes]:      *)
(* origin says where it was stored; comments is Absent (no such property)  *)
(* or holds a reply tree; avatars and likes are Absent or hold the object. *)
(* The stored item is Absent (getItem returned null) or holds a text       *)
(* [kind, value]: the empty string, a text that is not JSON, or the JSON   *)
(* text of value.  A rendered element is [class, data]: its class name and *)
(* the comment data it was created from.                                   *)

NoRecord ==
    [origin |-> "none", comments |-> Absent, avatars |-> Absent,
     likes |-> Absent]

\* JSON.parse (line 34): the parsed value, or a SyntaxError.
JSONParse(text) ==
    IF text.kind = "json"
    THEN [threw |-> FALSE, value |-> text.value]
    ELSE [threw |-> TRUE, value |-> NoRecord]

\* Line 32: a stored string is truthy unless it is empty.
HasLocalJson(item) == item # Absent /\ The(item).kind # "empty"

\* Lines 67-83: the elements written, in order, and whether a property read
\* on undefined raised (data.avatars at line 71, data.likes at line 77).
populatePostDetails(data) ==
    IF data.avatars = Absent
    THEN [writes |-> <<"main-photo">>, threw |-> TRUE]
    ELSE IF data.likes = Absent
    THEN [writes |-> <<"main-photo", "author-avatar", "author-name",
                       "post-meta">>,
          threw |-> TRUE]
    ELSE [writes |-> <<"main-photo", "author-avatar", "author-name",
                       "post-meta", "like-details", "total-comments-text",
                       "user-avatar">>,
          threw |-> FALSE]

\* Lines 218-223: the callback initializeApp hands to loadData, applied to
\* data in the current state.  flattenComments(undefined) raises at line 54.
InitializeCallback(data) ==
    IF data.comments = Absent
    THEN [postData |-> Present(data), flatCommentList |-> flatCommentList,
          domWrites |-> domWrites, listeners |-> listeners, threw |-> TRUE]
    ELSE LET tree == The(data.comments)
             populated == populatePostDetails(data)
         IN  [postData |-> Present(data),
              flatCommentList |-> flattenComments(tree, tree.top, 0),
              domWrites |-> domWrites \o populated.writes,
              listeners |-> IF populated.threw THEN listeners
                            ELSE listeners + 1,
              threw |-> populated.threw]

\* What one invocation of the callback leaves in callbackLog.
Invocation(source, data, threw) ==
    [source |-> source, data |-> data, threw |-> threw]

\* Lines 90-122 and 129-142 raise before returning an element when
\* postData.avatars is undefined (lines 99, 132).
AvatarsMissing == postData = Absent \/ The(postData).avatars = Absent

\* Line 110: message.startsWith raises unless message is a string.
MessageMissing(commentData) == commentData.message \in {Undefined, Null}

\* Lines 90-122.
createCommentElement(commentData) ==
    IF AvatarsMissing \/ MessageMissing(commentData)
    THEN Absent
    ELSE Present([class |-> "comment-article", data |-> commentData])

\* Lines 129-142.
createOverlayCommentElement(commentData) ==
    IF AvatarsMissing
    THEN Absent
    ELSE Present([class |-> "overlay-comment-bubble", data |-> commentData])

\* updateOverlayComments returning at index 0 before it clears the overlay.
updateOverlayCommentsStaleMutant(index) ==
    IF index = 0 THEN overlayCommentsContainer
    ELSE createOverlayCommentElement(flatCommentList[index])

\* Lines 154-160 for the index just set: the children of the overlay
\* container afterwards (cleared first, so empty when the bubble raises).
updateOverlayComments(index) ==
    IF index = 0 THEN <<>>
    ELSE createOverlayCommentElement(flatCommentList[index])

\* The part of the state the two step handlers work on.
Display ==
    [currentCommentIndex |-> currentCommentIndex,
     commentsContainer |-> commentsContainer,
     overlayCommentsContainer |-> overlayCommentsContainer,
     commentCounter |-> commentCounter,
     scrolledTo |-> scrolledTo]

\* Lines 166-180.
handleNextComment(shouldScroll) ==
    IF currentCommentIndex < Len(flatCommentList)
    THEN LET commentData == flatCommentList[currentCommentIndex + 1]
             commentElement == createCommentElement(commentData)
         IN  IF commentElement = Absent
             THEN Display
             ELSE [currentCommentIndex |-> currentCommentIndex + 1,
                   commentsContainer |-> commentsContainer \o commentElement,
                   overlayCommentsContainer |->
                       updateOverlayComments(currentCommentIndex + 1),
                   commentCounter |-> <<currentCommentIndex + 1>>,
                   scrolledTo |-> IF shouldScroll
                                  THEN Len(commentsContainer) + 1
                                  ELSE scrolledTo]
    ELSE Display

\* Lines 185-195.
handlePreviousComment ==
    IF currentCommentIndex > 0
    THEN [currentCommentIndex |-> currentCommentIndex - 1,
          commentsContainer |->
              IF Len(commentsContainer) > 0
              THEN SubSeq(commentsContainer, 1, Len(commentsContainer) - 1)
              ELSE commentsContainer,
          overlayCommentsContainer |->
              updateOverlayComments(currentCommentIndex - 1),
          commentCounter |-> <<currentCommentIndex - 1>>,
          scrolledTo |-> scrolledTo]
    ELSE Display

\* The state after a step handler returned display d.
Shows(d) ==
    /\ currentCommentIndex' = d.currentCommentIndex
    /\ commentsContainer' = d.commentsContainer
    /\ overlayCommentsContainer' = d.overlayCommentsContainer
    /\ commentCounter' = d.commentCounter
    /\ scrolledTo' = d.scrolledTo

MaxViewerComments == 3   \* comments of a record read by the viewer

\* Comment trees of the records: every nesting of up to MaxViewerComments
\* comments over depths 0 and 1, and one whose second comment has no message.
ViewerTrees ==
    LET inputs == UNION {[1..k -> {"m"} \X {0, 1}] : k \in 0..MaxViewerComments}
        built  == {BuildTree(MapArticles(TreeInput(f), <<>>, EmptyAvatars).raw) :
                      f \in inputs}
        whole  == BuildTree(MapArticles(
                      TreeInput(<<<<"m", 0>>, <<"m", 1>>, <<"m", 0>>>>),
                      <<>>, EmptyAvatars).raw)
    IN  built \cup {[whole EXCEPT !.node[2].message = Undefined]}

\* Shapes of a parsed record: complete, or lacking one of the properties the
\* callback reads.
RecordShapes ==
    {[comments |-> Present(t), avatars |-> Present(EmptyAvatars),
      likes |-> Present("likes")] : t \in ViewerTrees}
    \cup {[comments |-> Absent, avatars |-> Present(EmptyAvatars),
           likes |-> Present("likes")],
          [comments |-> Present(EmptyTree), avatars |-> Absent,
           likes |-> Present("likes")],
          [comments |-> Present(EmptyTree), avatars |-> Present(EmptyAvatars),
           likes |-> Absent]}

RecordsFrom(origin) ==
    {[origin |-> origin, comments |-> r.comments, avatars |-> r.avatars,
      likes |-> r.likes] : r \in RecordShapes}

\* What the landing page or an earlier session may have left in localStorage.
StoredItems ==
    {Absent,
     Present([kind |-> "empty", value |-> NoRecord]),
     Present([kind |-> "garbage", value |-> NoRecord])}
    \cup {Present([kind |-> "json", value |-> r]) : r \in RecordsFrom("cache")}

\* What the request for data.json yields: Absent when it fails (network
\* error, or a body that is not JSON), else the record.
FetchResults == {Absent} \cup {Present(r) : r \in RecordsFrom("data.json")}

\* The bookmarklet is not running.
ScraperIdle ==
    /\ page = SparsePage
    /\ pc = "idle"
    /\ NoReturns
    /\ NoEffects

\* script.js lines 7-22 have run and DOMContentLoaded is about to fire.
InitViewer ==
    /\ ScraperIdle
    /\ localStorage \in StoredItems
    /\ dataJson \in FetchResults
    /\ vpc = "loading"
    /\ postData = <<>>
    /\ flatCommentList = <<>>
    /\ currentCommentIndex = 0
    /\ commentsContainer = <<>>
    /\ overlayCommentsContainer = <<>>
    /\ commentCounter = <<>>
    /\ domWrites = <<>>
    /\ listeners = 0
    /\ callbackLog = <<>>
    /\ fetches = 0
    /\ event = "none"
    /\ scrolledTo = 0

StepVars == <<currentCommentIndex, commentsContainer,
              overlayCommentsContainer, commentCounter, scrolledTo>>

\* The callback invoked on data from source: lines 218-223 and the log.
Invoke(source, data) ==
    LET cb == InitializeCallback(data)
    IN  /\ postData' = cb.postData
        /\ flatCommentList' = cb.flatCommentList
        /\ domWrites' = cb.domWrites
        /\ listeners' = cb.listeners
        /\ callbackLog' = Append(callbackLog, Invocation(source, data, cb.threw))

\* Lines 227, 217-224 and 30-44: DOMContentLoaded runs initializeApp, which
\* runs loadData up to its return.  The try block of lines 33-39 contains the
\* call of the callback, so whatever the callback raises is caught at line 37
\* and control falls through to the fetch of line 41.
LoadData ==
    /\ vpc = "loading"
    /\ event' = "DOMContentLoaded"
    /\ UNCHANGED <<scraperVars, localStorage, dataJson, StepVars>>
    /\ IF HasLocalJson(localStorage)
          /\ ~JSONParse(The(localStorage)).threw
       THEN LET data == JSONParse(The(localStorage)).value
            IN  /\ Invoke("cache", data)
                /\ IF InitializeCallback(data).threw
                   THEN fetches' = fetches + 1 /\ vpc' = "fetching"
                   ELSE fetches' = fetches /\ vpc' = "settled"
       ELSE /\ fetches' = fetches + 1
            /\ vpc' = "fetching"
            /\ UNCHANGED <<postData, flatCommentList, domWrites, listeners,
                           callbackLog>>

\* Lines 41-43: the request settles; the callback runs on the parsed body.
FetchSettles ==
    /\ vpc = "fetching"
    /\ vpc' = "settled"
    /\ event' = "fetch"
    /\ UNCHANGED <<scraperVars, localStorage, dataJson, fetches, StepVars>>
    /\ IF dataJson = Absent
       THEN UNCHANGED <<postData, flatCommentList, domWrites, listeners,
                        callbackLog>>
       ELSE Invoke("fetch", The(dataJson))

Keys == {"ArrowRight", "ArrowLeft", "Enter"}

LoadVars == <<localStorage, dataJson, vpc, postData, flatCommentList,
              domWrites, listeners, callbackLog, fetches>>

\* Lines 201-204: a keydown event, once the listeners are set up.
KeyDown ==
    /\ listeners > 0
    /\ \E key \in Keys :
           /\ event' = key
           /\ CASE key = "ArrowRight" -> Shows(handleNextComment(TRUE))
                [] key = "ArrowLeft"  -> Shows(handlePreviousComment)
                [] OTHER              -> UNCHANGED StepVars
    /\ UNCHANGED <<scraperVars, LoadVars>>

\* Lines 206-211: a click on the image, right or left of its middle.
Click ==
    /\ listeners > 0
    /\ \E side \in {"click right", "click left"} :
           /\ event' = side
           /\ IF side = "click right"
              THEN Shows(handleNextComment(FALSE))
              ELSE Shows(handlePreviousComment)
    /\ UNCHANGED <<scraperVars, LoadVars>>

NextViewer == LoadData \/ FetchSettles \/ KeyDown \/ Click

SpecViewer == InitViewer /\ [][NextViewer]_vars

-----------------------------------------------------------------------------
(* Properties of the reply tree (SpecTree).                                *)

Range(q) == {q[i] : i \in 1..Len(q)}

Returned == pc = "returned"

\* The raw records of the call: the articles that parsed, in document order.
RawComments ==
    MapArticles(The(page.commentsDiv), <<>>,
                SeedAuthorAvatar(page.authorAvatar, metaRet.postAuthor)).raw

IsIncreasing(q) == \A i, j \in 1..Len(q) : i < j => q[i] < q[j]

\* The record the next one is attached to: the nearest preceding record of
\* strictly smaller depth, 0 when there is none.
NearestShallower(raw, i) ==
    LET smaller == {j \in 1..(i - 1) : raw[j].depth < raw[i].depth}
    IN  IF smaller = {} THEN 0 ELSE Max(smaller)

DepthStackExampleInput ==
    Present(<<[author |-> "A", msg |-> "m", avatar |-> Undefined, depth |-> 0],
              [author |-> "B", msg |-> "m", avatar |-> Undefined, depth |-> 1],
              [author |-> "C", msg |-> "m", avatar |-> Undefined, depth |-> 1],
              [author |-> "D", msg |-> "m", avatar |-> Undefined, depth |-> 0]>>)

DepthStackExampleTree ==
    <<[name |-> "A", message |-> "m",
       replies |-> <<[name |-> "B", message |-> "m"],
                     [name |-> "C", message |-> "m"]>>],
      [name |-> "D", message |-> "m"]>>

\* C3: every record is a reply of the nearest preceding record of strictly
\* smaller depth, and a top-level comment exactly when no preceding record
\* has a strictly smaller depth; every reply list and the top-level list keep
\* document order (each record was appended last); and the records
\* (A,0),(B,1),(C,1),(D,0) give [A with replies [B, C], D without replies].
C3_NearestShallowerParent ==
    Returned =>
        LET raw  == RawComments
            tree == comRet.comments
        IN  /\ Len(tree.node) = Len(raw)
            /\ \A i \in 1..Len(raw) :
                   /\ tree.node[i] = raw[i].commentObject
                   /\ (i \in Range(tree.top)) = (NearestShallower(raw, i) = 0)
                   /\ \A p \in 1..Len(raw) :
                          (tree.has[p] /\ i \in Range(tree.replies[p]))
                              = (p = NearestShallower(raw, i))
                   /\ IsIncreasing(tree.replies[i])
            /\ IsIncreasing(tree.top)
            /\ (page.commentsDiv = DepthStackExampleInput
                    => JsonComments(tree, tree.top) = DepthStackExampleTree)

C3_Witness ==
    /\ Returned
    /\ page.commentsDiv = DepthStackExampleInput
    /\ comRet.comments.top = <<1, 4>>
    /\ comRet.comments.replies[1] = <<2, 3>>
    /\ ~comRet.comments.has[4]

\* C4: no comment object of the returned tree carries a replies property of
\* length zero.
C4_NoEmptyReplies ==
    Returned =>
        \A i \in 1..Len(comRet.comments.node) :
            comRet.comments.has[i] => Len(comRet.comments.replies[i]) > 0

C4_Witness ==
    /\ Returned
    /\ \E i, j \in 1..Len(comRet.comments.node) :
           /\ comRet.comments.has[i]
           /\ j \in Range(comRet.comments.replies[i])
           /\ ~comRet.comments.has[j]

\* The raw records read back from a flattened list, level taken as depth.
RawFromFlat(flat) ==
    [i \in 1..Len(flat) |->
        [commentObject |-> [name |-> flat[i].name, message |-> flat[i].message],
         depth |-> flat[i].level]]

\* C2: building the tree, flattening it in pre-order with levels, and
\* rebuilding from the flattened list with level as depth gives a tree
\* structurally identical to the first.
C2_FlattenRebuildIdentity ==
    Returned =>
        LET tree == comRet.comments
            flat == flattenComments(tree, tree.top, 0)
            again == BuildTree(RawFromFlat(flat))
        IN  /\ Len(flat) = Len(tree.node)
            /\ JsonComments(again, again.top) = JsonComments(tree, tree.top)

\* A tree with a reply of a reply, built from depths that jump (0 then 2), so
\* that the levels of the flattened list differ from the depths given.
C2_Witness ==
    /\ Returned
    /\ LET tree == comRet.comments
           flat == flattenComments(tree, tree.top, 0)
       IN  /\ \E i \in 1..Len(flat) : flat[i].level = 2
           /\ \E i \in 1..Len(flat) : flat[i].level # RawComments[i].depth

-----------------------------------------------------------------------------
(* Properties of the avatar map (SpecAvatars).                             *)

\* C1: whatever the input (an absent container, no article, only
\* unparseable articles, parsed comments), the returned avatar map has the
\* key fallback with a non-empty value.
C1_FallbackAlwaysPresent ==
    Returned =>
        /\ FallbackKey \in DOMAIN comRet.avatars
        /\ comRet.avatars[FallbackKey] # ""

IsParsed(article) == Truthy(MessageOf(article))

\* The articles that parsed, in document order.
ParsedArticles == SelectSeq(The(page.commentsDiv), IsParsed)

\* The own property of the returned map for a name (Undefined when none).
AvatarEntry(name) ==
    IF name \in DOMAIN comRet.avatars THEN comRet.avatars[name] ELSE Undefined

\* Positions of the parsed comments by a name that carry an avatar URL.
WithAvatar(parsed, name) ==
    {i \in 1..Len(parsed) : parsed[i].author = name /\ Truthy(parsed[i].avatar)}

\* The header avatar was recorded for the post author before the comments.
HeaderAvatarRecorded(name) ==
    /\ name = metaRet.postAuthor
    /\ name # AUTHOR_NOT_FOUND
    /\ page.authorAvatar # NoImage
    /\ Truthy(page.authorAvatar)

-----------------------------------------------------------------------------
(* Properties of scrapeEngagement (SpecEngagement).                        *)

\* C8: with n1..nk the integer runs of the stats text: k = 0 gives counts
\* 0 and 0; k = 1 without the word "comment" gives otherCount n1 and
\* totalComments 0; k = 1 with it gives otherCount 0 and totalComments n1;
\* k >= 2 gives otherCount n1 and totalComments nk.  Afterwards a likers
\* text of the form "<name> and <count> others" replaces firstLiker and
\* otherCount by the parsed name and count and leaves totalComments alone.
C8_EngagementPriority ==
    Returned =>
        LET stats == The(page.statsDiv)
            text  == StatsInnerText(stats)
            n     == MatchNumbers(text)
            k     == Len(n)
            other == CASE k = 0 -> 0
                       [] k = 1 /\ ~HasCommentWord(text) -> parseInt(n[1])
                       [] k = 1 /\ HasCommentWord(text) -> 0
                       [] k >= 2 -> parseInt(n[1])
            total == CASE k = 0 -> 0
                       [] k = 1 /\ ~HasCommentWord(text) -> 0
                       [] k = 1 /\ HasCommentWord(text) -> parseInt(n[1])
                       [] k >= 2 -> parseInt(n[k])
            label == IF stats.likers = NoElement THEN <<>> ELSE Trim(stats.likers)
            match == LikersMatch(label)
        IN  /\ engRet.totalComments = total
            /\ IF match.matched
               THEN /\ engRet.likes.firstLiker = Trim(match.name)
                    /\ engRet.likes.otherCount = parseInt(StripCommas(match.count))
               ELSE engRet.likes.otherCount = other

\* The likers text overrides a count read off the stats text: "4 ", then
\* "Jane and 12 others", then more text with a number.
C8_Witness ==
    /\ Returned
    /\ LET stats == The(page.statsDiv)
           n == MatchNumbers(StatsInnerText(stats))
       IN  /\ stats.likers = <<"Jane", " and ", "1", "2", " others">>
           /\ Len(n) >= 3
           /\ parseInt(n[1]) = 4
           /\ engRet.likes = [firstLiker |-> <<"Jane">>, otherCount |-> 12]
           /\ engRet.totalComments = parseInt(n[Len(n)])
           /\ engRet.totalComments # 12

-----------------------------------------------------------------------------
(* Properties of scrapePostDate (SpecDate).                                *)

IsFragment(piece) == piece.src # 0

\* The separating space the reduce inserted between the fragments at
\* positions i and j of sortedSpans, if it did.
SpaceInsertedBetween(pieces, i, j) ==
    \E p \in 1..(Len(pieces) - 2) :
        /\ pieces[p].src = i
        /\ pieces[p + 1] = Separator
        /\ pieces[p + 2].src = j

\* The fragments at positions i and j of sortedSpans were joined directly.
JoinedDirectly(pieces, i, j) ==
    \E p \in 1..(Len(pieces) - 1) :
        pieces[p].src = i /\ pieces[p + 1].src = j

DifferentClass(sorted, i, j) == HasDigit(sorted[i].text) # HasDigit(sorted[j].text)

\* C10 as stated: for every two consecutive fragments in sorted order
\* a separating space is inserted between them exactly when their classes
\* differ.
C10_SpaceAtEveryClassBoundary ==
    (Returned /\ Len(SortedSpans(The(page.datePermalink))) > 0) =>
        LET sorted == SortedSpans(The(page.datePermalink))
            pieces == DatePieces(The(page.datePermalink))
        IN  \A i \in 1..(Len(sorted) - 1) :
                SpaceInsertedBetween(pieces, i, i + 1)
                    = DifferentClass(sorted, i, i + 1)

\* C10 (amended): the reconstruction joins the fragments within 5px of the
\* first sorted fragment's top and drops the others; between two consecutive
\* kept fragments exactly one separating space is inserted when their classes
\* differ and none when they agree; the result is the pieces' text.
C10_SpaceAtFirstLineClassBoundary ==
    (Returned /\ Len(SortedSpans(The(page.datePermalink))) > 0) =>
        LET sorted == SortedSpans(The(page.datePermalink))
            line   == FirstLine(sorted)
            pieces == DatePieces(The(page.datePermalink))
            fragments == SelectSeq(pieces, IsFragment)
        IN  /\ dateRet = PiecesText(pieces)
            /\ [p \in 1..Len(fragments) |-> fragments[p].src] = line
            /\ \A p \in 1..Len(fragments) :
                   fragments[p].text = sorted[line[p]].text
            /\ \A q \in 1..(Len(line) - 1) :
                   IF DifferentClass(sorted, line[q], line[q + 1])
                   THEN SpaceInsertedBetween(pieces, line[q], line[q + 1])
                   ELSE JoinedDirectly(pieces, line[q], line[q + 1])
            /\ Len(pieces) = Len(line)
                   + Cardinality({q \in 1..(Len(line) - 1) :
                         DifferentClass(sorted, line[q], line[q + 1])})

\* Three kept fragments with one class boundary and one same-class pair, and
\* the result "8 hh".
C10_Witness ==
    /\ Returned
    /\ LET sorted == SortedSpans(The(page.datePermalink))
       IN  /\ Len(sorted) = 3
           /\ FirstLine(sorted) = <<1, 2, 3>>
           /\ dateRet = <<"8", " ", "h", "h">>

-----------------------------------------------------------------------------
(* Properties of the extractors on absent elements (SpecExtract).          *)

After(positions) == pc \notin positions

\* C7: an extractor called with an absent element returns its not-found
\* value (DATE_NOT_FOUND; AUTHOR_NOT_FOUND and LOCATION_NOT_FOUND; firstLiker
\* "" with otherCount 0 and totalComments 0; an empty comment list), and the
\* record assembled afterwards has every field, holding what was returned.
C7_SentinelTotality ==
    /\ (After({"meta"}) /\ page.headerDiv = Absent) =>
           metaRet = [postAuthor |-> "AUTHOR_NOT_FOUND",
                      postLocation |-> "LOCATION_NOT_FOUND"]
    /\ (After({"meta", "date"}) /\ page.datePermalink = Absent) =>
           dateRet = <<"DATE_NOT_FOUND">>
    /\ (After({"meta", "date", "engagement"}) /\ page.statsDiv = Absent) =>
           engRet = [likes |-> [firstLiker |-> <<>>, otherCount |-> 0],
                     totalComments |-> 0]
    /\ (After({"meta", "date", "engagement", "comments"})
            /\ page.commentsDiv = Absent) =>
           /\ comRet.comments.top = <<>>
           /\ JsonComments(comRet.comments, comRet.comments.top) = <<>>
    /\ pc = "assembled" =>
           /\ Len(scrapedData) = 1
           /\ DOMAIN scrapedData[1] =
                  {"mainPhotoUrl", "postAuthor", "postDate", "postLocation",
                   "likes", "totalComments", "avatars", "comments"}
           /\ DOMAIN scrapedData[1].likes = {"firstLiker", "otherCount"}
           /\ scrapedData[1].postAuthor = metaRet.postAuthor
           /\ scrapedData[1].postLocation = metaRet.postLocation
           /\ scrapedData[1].postDate = dateRet
           /\ scrapedData[1].likes = engRet.likes
           /\ scrapedData[1].totalComments = engRet.totalComments
           /\ scrapedData[1].comments = comRet.comments
           /\ scrapedData[1].avatars = comRet.avatars
           /\ scrapedData[1].mainPhotoUrl = photoRet

C7_Witness ==
    /\ pc = "assembled"
    /\ page.headerDiv = Absent
    /\ page.datePermalink = Absent
    /\ page.statsDiv = Absent
    /\ page.commentsDiv = Absent
    /\ scrapedData[1].postDate = <<"DATE_NOT_FOUND">>
    /\ scrapedData[1].postAuthor = "AUTHOR_NOT_FOUND"

-----------------------------------------------------------------------------
(* Properties of a run of the bookmarklet (Spec).                          *)

\* The serialized record can still be read somewhere: in a textarea left in
\* the document or among the values written to the console.
SerializedTextRetrievable ==
    LET jsonString == Serialize(scrapedData[1])
    IN  \/ jsonString \in Range(bodyTextareas)
        \/ \E e \in Range(console) : jsonString \in Range(e.data)

\* C5: whenever the copy command fails, by raising or by reporting failure,
\* the operator is shown the failure notification and not the success
\* notification, and the serialized record stays retrievable.
\* (Every call of runScraper that reaches the copy command shows exactly one
\* notification, so alerts[r] belongs to copyLog[r].)
C5_CopyFailureReported ==
    \A r \in 1..Len(copyLog) :
        copyLog[r] # "copied" =>
            /\ alerts[r] = COPY_FAILED_ALERT
            /\ SerializedTextRetrievable

\* C6: when findCoreContainers reports not found, every call of runScraper
\* shows the orientation notification and returns having called nothing
\* else: no extractor, no finalizeAndCopy, nothing copied, no record built.
C6_OrientationFailureAborts ==
    ~findCoreContainers(page.dom).found =>
        /\ \A r \in 1..Len(calls) : calls[r] = <<"findCoreContainers">>
        /\ alerts = [r \in 1..Len(calls) |-> ORIENTATION_ALERT]
        /\ clipboard = <<>>
        /\ copyLog = <<>>
        /\ bodyTextareas = <<>>
        /\ scrapedData = <<>>

\* A run on a page with the complementary region, the photo link and an
\* article, but no shared ancestor with four DIV children.
C6_Witness ==
    /\ ~findCoreContainers(page.dom).found
    /\ Len(calls) >= 1
    /\ console[1].message = "Could not find a common ancestor with 4 DIV children."

-----------------------------------------------------------------------------
(* The date reconstruction example (SpecDate).                             *)

\* The anchors of the example: exactly the two span elements "8" at
\* (x=10, y=0) and "h" at (x=20, y=0), in either document order.
DateExampleSpans ==
    LET eight == [text |-> <<"8">>, x |-> 10, y |-> 0]
        h     == [text |-> <<"h">>, x |-> 20, y |-> 0]
    IN  {<<eight, h>>, <<h, eight>>}

IsDateExample ==
    /\ page.datePermalink # Absent
    /\ The(page.datePermalink).spans \in DateExampleSpans

\* C11 as stated: on the example anchor scrapePostDate returns "8h".
C11_ExampleReturns8h ==
    (Returned /\ IsDateExample) => dateRet = <<"8", "h">>

\* C11 (amended): on the example anchor scrapePostDate returns "8 h", the two
\* fragments in left-to-right order with one space at the digit/non-digit
\* boundary, whatever the document order of the two spans and whatever other
\* text the anchor holds.
C11_ExampleReturns8SpaceH ==
    (Returned /\ IsDateExample) =>
        /\ dateRet = <<"8", " ", "h">>
        /\ TextLength(dateRet) = 3

\* The example anchor with "h" before "8" in the document, after the call.
C11_Witness ==
    /\ Returned
    /\ IsDateExample
    /\ The(page.datePermalink).spans[1].text = <<"h">>
    /\ dateRet # DATE_NOT_FOUND

-----------------------------------------------------------------------------
(* Properties of the viewer's stepping (SpecViewer).                       *)

SidebarOf(commentData) == [class |-> "comment-article", data |-> commentData]

BubbleOf(commentData) ==
    [class |-> "overlay-comment-bubble", data |-> commentData]

ForwardEvents == {"ArrowRight", "click right"}
BackwardEvents == {"ArrowLeft", "click left"}

\* The rendered state agrees with currentCommentIndex.
SteppingInvariant ==
    /\ currentCommentIndex \in 0..Len(flatCommentList)
    /\ commentsContainer =
           [i \in 1..currentCommentIndex |-> SidebarOf(flatCommentList[i])]
    /\ overlayCommentsContainer =
           IF currentCommentIndex = 0 THEN <<>>
           ELSE <<BubbleOf(flatCommentList[currentCommentIndex])>>

\* What one step may change.
SteppingStep ==
    /\ Len(commentsContainer') - Len(commentsContainer) \in {-1, 0, 1}
    /\ currentCommentIndex' - currentCommentIndex \in {-1, 0, 1}
    /\ (event' \in ForwardEvents
            /\ currentCommentIndex = Len(flatCommentList)) =>
           UNCHANGED StepVars
    /\ (event' \in BackwardEvents /\ currentCommentIndex = 0) =>
           UNCHANGED StepVars
    /\ event' \in ForwardEvents =>
           Len(commentsContainer') >= Len(commentsContainer)
    /\ event' \in BackwardEvents =>
           Len(commentsContainer') <= Len(commentsContainer)

\* C12: after any sequence of forward and backward steps over a flattened
\* list of length N, 0 <= currentCommentIndex <= N, the sidebar holds exactly
\* the first currentCommentIndex entries in order, the overlay holds exactly
\* the entry at currentCommentIndex - 1 (nothing at 0), and every step
\* changes the rendered count by at most one, a forward step at N and a
\* backward step at 0 changing nothing.
C12_SteppingKeepsPrefix == []SteppingInvariant /\ [][SteppingStep]_vars

\* Two forward steps and one back on a list of three entries: one sidebar
\* comment left, the overlay showing it, the list holding a reply.
C12_Witness ==
    /\ Len(flatCommentList) = 3
    /\ flatCommentList[2].level = 1
    /\ currentCommentIndex = 1
    /\ event \in BackwardEvents
    /\ scrolledTo = 2
    /\ Len(commentsContainer) = 1
    /\ overlayCommentsContainer = <<BubbleOf(flatCommentList[1])>>

-----------------------------------------------------------------------------
(* Scrape passes of one execution of the bookmarklet (Spec).               *)

\* The calls of runScraper that went on to call finalizeAndCopy.
Deliveries == {r \in 1..Len(calls) : "finalizeAndCopy" \in Range(calls[r])}

\* C13: one execution of the bookmarklet performs one scrape pass: at most one
\* record is assembled, and finalizeAndCopy is called (and the copy command
\* issued) at most once.
C13_OneScrapePass ==
    /\ Len(scrapedData) <= 1
    /\ Cardinality(Deliveries) <= 1
    /\ Len(copyLog) <= 1

-----------------------------------------------------------------------------
(* Invocations of loadData's callback (SpecViewer).                        *)

\* The prior-session cache holds parseable JSON.
CacheParseable ==
    /\ HasLocalJson(localStorage)
    /\ ~JSONParse(The(localStorage)).threw

\* C14: in every execution of loadData the callback is invoked at most once;
\* when the cache holds parseable JSON it receives the cached record and no
\* fetch is issued, also when the callback raises on the cached record;
\* otherwise it receives the fetched record.
C14_CallbackAtMostOnce ==
    /\ Len(callbackLog) <= 1
    /\ (vpc # "loading" /\ CacheParseable) =>
           /\ Len(callbackLog) >= 1
           /\ callbackLog[1].source = "cache"
           /\ callbackLog[1].data = The(localStorage).value
           /\ fetches = 0
    /\ (vpc = "settled" /\ ~CacheParseable /\ dataJson # Absent) =>
           /\ Len(callbackLog) = 1
           /\ callbackLog[1].source = "fetch"
           /\ callbackLog[1].data = The(dataJson)

\* The part of C14 the code keeps: without a raising callback on a cached
\* record, the callback runs at most once, on the cached record without a
\* fetch or else on the fetched record.
CallbackOnceUnlessItRaised ==
    (\A i \in 1..Len(callbackLog) :
         ~(callbackLog[i].source = "cache" /\ callbackLog[i].threw))
        => C14_CallbackAtMostOnce

-----------------------------------------------------------------------------
(* The common container of findCoreContainers (Spec).                      *)

\* Number of elements above n.
Depth(dom, n) == Cardinality(Ancestors(dom, n))

\* The DIV child of c that has exactly i DIV children of c before it.
DivChildAt(dom, c, i) ==
    LET divs == {k \in Elements(dom) : dom.parent[k] = c /\ dom.tag[k] = "DIV"}
    IN  CHOOSE k \in divs : Cardinality({j \in divs : j < k}) = i

\* The date anchor: the first photo link inside the first complementary DIV.
DateAnchors(dom) ==
    LET regions == {n \in Elements(dom) :
                       dom.tag[n] = "DIV" /\ dom.role[n] = "complementary"}
    IN  IF regions = {} THEN {}
        ELSE {n \in Elements(dom) :
                 /\ First(regions) \in Ancestors(dom, n)
                 /\ IsPhotoLink(dom, n)}

ArticleElements(dom) ==
    {n \in Elements(dom) : dom.tag[n] = "DIV" /\ dom.role[n] = "article"}

\* The ancestors of the article that also contain the anchor and have exactly
\* four direct DIV children.
Candidates(dom, anchor, article) ==
    {m \in Ancestors(dom, article) :
        /\ m \in Ancestors(dom, anchor)
        /\ Cardinality({k \in Elements(dom) :
               dom.parent[k] = m /\ dom.tag[k] = "DIV"}) = 4}

\* C15: when the date anchor and an article exist, findCoreContainers
\* succeeds exactly when some ancestor of the article contains the anchor and
\* has exactly four direct DIV children; the container it uses is the nearest
\* such ancestor of the article, and header, stats and comments are its DIV
\* children at index 0, 1 and 3.  Otherwise it returns the not-found signal.
C15_NearestCommonContainer ==
    LET dom == page.dom
        r   == findCoreContainers(dom)
    IN  (DateAnchors(dom) # {} /\ ArticleElements(dom) # {}) =>
            LET anchor  == First(DateAnchors(dom))
                article == First(ArticleElements(dom))
                cands   == Candidates(dom, anchor, article)
            IN  IF cands = {}
                THEN r = NotFound
                ELSE /\ r.found
                     /\ r.datePermalink = anchor
                     /\ r.commonAncestor \in cands
                     /\ \A m \in cands :
                            Depth(dom, m) <= Depth(dom, r.commonAncestor)
                     /\ r.headerDiv = DivChildAt(dom, r.commonAncestor, 0)
                     /\ r.statsDiv = DivChildAt(dom, r.commonAncestor, 1)
                     /\ r.commentsDiv = DivChildAt(dom, r.commonAncestor, 3)

\* A run that succeeded on a tree where the nearest shared ancestor of anchor
\* and article (element 2) has three DIV children and the root has four.
C15_Witness ==
    /\ Len(calls) >= 1
    /\ "finalizeAndCopy" \in Range(calls[1])
    /\ findCoreContainers(page.dom).found
    /\ findCoreContainers(page.dom).commonAncestor = 1
    /\ 2 \in Ancestors(page.dom, findCoreContainers(page.dom).datePermalink)
    /\ Len(DivChildren(page.dom, 2)) = 3

\* A run on a tree where an ancestor of the article has four DIV children
\* but does not contain the anchor, and no shared ancestor has four.
C15_NotFoundWitness ==
    /\ Len(calls) >= 1
    /\ DateAnchors(page.dom) # {}
    /\ ArticleElements(page.dom) # {}
    /\ Len(DivChildren(page.dom, 2)) = 4
    /\ ~findCoreContainers(page.dom).found

====
